---- MODULE Spec2Model ----
(***************************************************************************)
(* Model of src/main.rs: the shared store (AppState) with one std Mutex    *)
(* per field, the three periodic tasks, the display renderer, the two      *)
(* display backends and the HTTP handlers.                                 *)
(*                                                                         *)
(* A String is a sequence of characters, each character a one-token        *)
(* string.  The box-drawing characters of MockDisplay::clear are written   *)
(* TL TR BL BR (corners), HZ (horizontal bar) and VT (vertical bar).       *)
(***************************************************************************)
EXTENDS Integers, Sequences, FiniteSets, TLC

VARIABLES
    feature,      \* the cargo feature of the build: "simulation" or "hardware"
    led_status,   \* AppState.led_status / the level of AppState.led_pin
    sensor_data,  \* AppState.sensor_data: Option<SensorData>
    display,      \* AppState.display: Option<Box<dyn Display>>
    holder,       \* per Mutex of AppState: the process holding its guard
    poisoned,     \* per Mutex of AppState: whether lock() returns Err
    now,          \* the last value read from start_time.elapsed(), in seconds
    led_on,       \* led_task: the local led_on
    r_pc,         \* display_update_task: position
    r_sensor,     \* display_update_task: the local sensor_data
    r_led,        \* update_display_content: the local led_status
    r_lock_err,   \* history: the locks that failed in this render cycle
    h_pc,         \* HTTP handler: position
    h_req,        \* HTTP handler: the request being served
    h_led,        \* get_status_handler: the local led_status
    h_sensor,     \* get_status_handler: the local last_sensor_reading
    h_uptime,     \* get_status_handler: the local uptime
    led_writer,   \* history: who wrote the LED field last
    post_ok,      \* history: state of the last POST /led answered with success
    sampled,      \* history: sensor_reading_task has stored a reading
    d_prev,       \* SimulationDisplay alone: content before the last call
    d_last,       \* SimulationDisplay alone: the last call made
    d_ops         \* SimulationDisplay alone: number of calls made

\* ------------------------------------------------------------------------
\* Program constants
\* ------------------------------------------------------------------------
GridWidth == 50
GridHeight == 15
GlyphWidth == 10
GlyphHeight == 20

\* ------------------------------------------------------------------------
\* Bounds of the model
\* ------------------------------------------------------------------------
MaxOps == 3
MaxTime == 1
MaxPoisoned == 1

NL == "\n"

\* n copies of the character c: str::repeat
Repeat(c, n) == [i \in 1..n |-> c]

\* ------------------------------------------------------------------------
\* MockDisplay
\* ------------------------------------------------------------------------
\* MockDisplay::new: the content starts as the empty String
MockDisplayNew == << >>

TopLine == <<"TL">> \o Repeat("HZ", GridWidth - 2) \o <<"TR">>
BlankLine == <<"VT">> \o Repeat(" ", GridWidth - 2) \o <<"VT">>
BottomLine == <<"BL">> \o Repeat("HZ", GridWidth - 2) \o <<"BR">>

RECURSIVE PushBlankLines(_, _)
PushBlankLines(content, n) ==
    IF n = 0 THEN content
    ELSE PushBlankLines(content \o BlankLine \o <<NL>>, n - 1)

\* a faulty variant of MockClear: content.clear() is forgotten
MockClear_NoReset(content) ==
    PushBlankLines(content \o TopLine \o <<NL>>, GridHeight - 2)
        \o BottomLine \o <<NL>>

\* MockDisplay::clear: empty the String, then push the top line, height - 2
\* blank lines and the bottom line, each followed by a newline
MockClear(content) ==
    PushBlankLines(<< >> \o TopLine \o <<NL>>, GridHeight - 2)
        \o BottomLine \o <<NL>>

\* the positions of the newlines of s, in increasing order
Newlines(s) ==
    LET IsNewline(i) == s[i] = NL
    IN  SelectSeq([i \in 1..Len(s) |-> i], IsNewline)

\* the pieces of s between the newlines at the positions nl; a final
\* newline opens no piece
SplitAt(s, nl) ==
    LET n == Len(nl)
        count == IF Len(s) > 0 /\ s[Len(s)] # NL THEN n + 1 ELSE n
    IN  [k \in 1..count |->
            SubSeq(s, IF k = 1 THEN 1 ELSE nl[k - 1] + 1,
                      IF k <= n THEN nl[k] - 1 ELSE Len(s))]

\* str::lines
Lines(s) == CHOOSE pieces \in {SplitAt(s, nl) : nl \in {Newlines(s)}} : TRUE

\* a faulty variant of WriteChars: the text is spliced in at start_pos and
\* what does not fit makes the line longer
WriteChars_Splices(chars, text, start_pos) ==
    IF start_pos < Len(chars)
    THEN SubSeq(chars, 1, start_pos) \o text
            \o SubSeq(chars, start_pos + Len(text) + 1, Len(chars))
    ELSE chars

\* the inner loop of add_text: chars[start_pos + j] = ch while
\* start_pos + j < chars.len() - 1; indices here are 0-based as in the code
WriteChars(chars, text, start_pos) ==
    IF start_pos < Len(chars)
    THEN [c \in 1..Len(chars) |->
            LET j == (c - 1) - start_pos IN
            IF j >= 0 /\ j < Len(text) /\ start_pos + j < Len(chars) - 1
            THEN text[j + 1]
            ELSE chars[c]]
    ELSE chars

\* a faulty variant of AddTextLine: the right-border test is off by one
AddTextLine_OffByOne(line, text, x) ==
    LET start_pos == x + 1 IN
    IF start_pos < Len(line)
    THEN [c \in 1..Len(line) |->
            LET j == (c - 1) - start_pos IN
            IF j >= 0 /\ j < Len(text) /\ start_pos + j < Len(line)
            THEN text[j + 1]
            ELSE line[c]]
    ELSE line

\* the body of add_text for the line that is hit: start_pos = x + 1
AddTextLine(line, text, x) == WriteChars(line, text, x + 1)

RECURSIVE JoinLines(_, _, _, _, _)
JoinLines(lines, i, text, x, y) ==
    IF i > Len(lines) THEN << >>
    ELSE (IF (i - 1) = y /\ y < GridHeight
          THEN AddTextLine(lines[i], text, x)
          ELSE lines[i])
         \o <<NL>> \o JoinLines(lines, i + 1, text, x, y)

\* MockDisplay::add_text: let lines = self.content.lines().collect(), then
\* the content is rebuilt line by line
MockAddText(content, text, x, y) ==
    CHOOSE new_content \in
        {JoinLines(lines, 1, text, x, y) : lines \in {Lines(content)}} : TRUE

\* ------------------------------------------------------------------------
\* impl Display for SimulationDisplay
\* ------------------------------------------------------------------------
SimClear(content) == MockClear(content)

\* draw_text scales pixel coordinates down to cells; the color is ignored
SimDrawText(content, text, x, y) ==
    MockAddText(content, text, x \div GlyphWidth, y \div GlyphHeight)

\* get_display_content: Some(copy of the content)
SimGetDisplayContent(content) == content

\* AppState::new, simulation:
\* Some(Box::new(SimulationDisplay { mock_display: MockDisplay::new(50, 15) }))
SimulationDisplayNew == [kind |-> "simulation", content |-> MockDisplayNew]

\* ------------------------------------------------------------------------
\* impl Display for HardwareDisplay.  The panel is the list of the texts
\* drawn since the last clear; a call on the panel may fail with an I/O error.
\* ------------------------------------------------------------------------
HwClear(content) == << >>

HwDrawText(content, text, x, y, color) ==
    Append(content, [text |-> text, x |-> x, y |-> y, color |-> color])

\* AppState::new, hardware: Some(Box(HardwareDisplay)) when the panel came up
HardwareDisplayNew == [kind |-> "hardware", content |-> << >>]

\* AppState::new, hardware: None when init_hardware_display failed
NoDisplay == [kind |-> "none", content |-> << >>]

\* ------------------------------------------------------------------------
\* dyn Display: the calls made through the trait object
\* ------------------------------------------------------------------------
DisplayClear(d) ==
    IF d.kind = "simulation"
    THEN [d EXCEPT !.content = SimClear(d.content)]
    ELSE [d EXCEPT !.content = HwClear(d.content)]

DisplayDrawText(d, text, x, y, color) ==
    IF d.kind = "simulation"
    THEN [d EXCEPT !.content = SimDrawText(d.content, text, x, y)]
    ELSE [d EXCEPT !.content = HwDrawText(d.content, text, x, y, color)]

\* Option<String>
NoString == [some |-> FALSE, text |-> << >>]
SomeString(s) == [some |-> TRUE, text |-> s]

\* a faulty variant of DisplayContentOf: a display without content yields
\* the empty String
DisplayContentOf_EmptyString(d) ==
    IF d.kind = "simulation" THEN SomeString(SimGetDisplayContent(d.content))
    ELSE SomeString(<< >>)

\* display_opt.as_ref().and_then(|d| d.get_display_content())
DisplayContentOf(d) ==
    IF d.kind = "simulation" THEN SomeString(SimGetDisplayContent(d.content))
    ELSE NoString

\* the results a call on the backend can have: the simulation never fails
DrawResults(d) == IF d.kind = "hardware" THEN {"Ok", "Err"} ELSE {"Ok"}

\* ------------------------------------------------------------------------
\* SensorData and the synthetic readings
\* ------------------------------------------------------------------------
\* temperatures and humidities are in thousandths of a unit
NoReading ==
    [some |-> FALSE, temperature |-> 0, humidity |-> 0, timestamp |-> 0]

SomeReading(t, h, ts) ==
    [some |-> TRUE, temperature |-> t, humidity |-> h, timestamp |-> ts]

\* hasher.finish() % 1000: the values the model draws
TempRandom == {666, 667}
HumRandom == {500}

\* SystemTime::now() in seconds since UNIX_EPOCH: the values the model draws
EpochSeconds == {1700000000}

\* 20.0 + (random_value * 15.0), random_value = k / 1000
simulate_temperature_reading(k) == 20000 + k * 15

\* 40.0 + (random_value * 40.0)
simulate_humidity_reading(k) == 40000 + k * 40

HighTempThreshold == 30000

\* a faulty variant of IsHighTemp: >= for >
IsHighTemp_Inclusive(t) == t >= HighTempThreshold

\* a faulty variant of IsHighTemp: the value shown with one decimal place
\* is compared
IsHighTemp_Rounded(t) == (t + 50) \div 100 >= HighTempThreshold \div 100

\* temperature > 30.0
IsHighTemp(t) == t > HighTempThreshold

\* ------------------------------------------------------------------------
\* format!
\* ------------------------------------------------------------------------
DigitChar(d) == <<"0", "1", "2", "3", "4", "5", "6", "7", "8", "9">>[d + 1]

RECURSIVE FormatInt(_)
FormatInt(n) ==
    IF n < 10 THEN <<DigitChar(n)>>
    ELSE FormatInt(n \div 10) \o <<DigitChar(n % 10)>>

\* {:.1}: one decimal place, rounded to nearest
FormatOneDecimal(milli) ==
    LET tenths == (milli + 50) \div 100
    IN  FormatInt(tenths \div 10) \o <<".">> \o <<DigitChar(tenths % 10)>>

TitleText == <<"H", "e", "l", "l", "o", " ", "W", "o", "r", "l", "d", "!">>
SubtitleText ==
    <<"P", "i", " ", "Z", "e", "r", "o", " ",
      "M", "o", "n", "i", "t", "o", "r">>
TempText(t) ==
    <<"T", "e", "m", "p", ":", " ">> \o FormatOneDecimal(t) \o <<"C">>
HumidityText(h) ==
    <<"H", "u", "m", "i", "d", "i", "t", "y", ":", " ">>
        \o FormatOneDecimal(h) \o <<"%">>
HighTempText == <<"H", "I", "G", "H", " ", "T", "E", "M", "P", "!">>
NoDataText ==
    <<"N", "o", " ", "s", "e", "n", "s", "o", "r", " ", "d", "a", "t", "a">>
UptimeText(secs) ==
    <<"U", "p", "t", "i", "m", "e", ":", " ">> \o FormatInt(secs) \o <<"s">>
LedText == <<"L", "E", "D">>

\* ------------------------------------------------------------------------
\* The store and its locks
\* ------------------------------------------------------------------------
Fields == {"sensor", "led", "display"}
Free == "free"

SensorTask == "sensor_reading_task"
LedTask == "led_task"
DisplayTask == "display_update_task"
Handler == "handler"
Procs == {SensorTask, LedTask, DisplayTask, Handler}

\* Mutex::lock returns once no other guard is alive
CanLock(f) == holder[f] = Free

\* Mutex::lock returns Ok(guard) unless the mutex is poisoned
LockOk(f) == ~poisoned[f]

Locked(p, f) == [holder EXCEPT ![f] = p]

\* the guard goes out of scope
Unlocked(f) == [holder EXCEPT ![f] = Free]

HeldBy(p) == {f \in Fields : holder[f] = p}

BoolName(b) == IF b THEN "true" ELSE "false"

histvars == <<led_writer, post_ok, sampled>>
drivervars == <<d_prev, d_last, d_ops>>
storevars == <<led_status, sensor_data, display>>
refreshvars == <<r_pc, r_sensor, r_led, r_lock_err>>
handlervars == <<h_pc, h_req, h_led, h_sensor, h_uptime>>

vars ==
    <<feature, led_status, sensor_data, display, holder, poisoned, now, led_on,
      r_pc, r_sensor, r_led, r_lock_err, h_pc, h_req, h_led, h_sensor,
      h_uptime, led_writer, post_ok, sampled, d_prev, d_last, d_ops>>

\* ------------------------------------------------------------------------
\* The environment: the clock, and a mutex becoming poisoned
\* ------------------------------------------------------------------------
\* start_time.elapsed().as_secs(): Instant is monotonic, so a read returns
\* no less than the read before it
Elapsed == now..MaxTime

\* a mutex of the store becomes poisoned (a thread panicked while it held
\* the guard): from then on lock() returns Err
PoisonLock ==
    /\ \E f \in Fields :
        /\ ~poisoned[f]
        /\ Cardinality({g \in Fields : poisoned[g]}) < MaxPoisoned
        /\ poisoned' = [poisoned EXCEPT ![f] = TRUE]
    /\ UNCHANGED <<feature, storevars, holder, now, led_on, refreshvars,
                   handlervars, histvars, drivervars>>

\* ------------------------------------------------------------------------
\* A critical section on one field (lock, one read or write of the field,
\* the guard dropped) is one step: it starts once no other guard of the
\* field is alive.  Only update_display_content takes a lock while it holds
\* another one; there taking and dropping the inner guard are two steps.
\* ------------------------------------------------------------------------

\* ------------------------------------------------------------------------
\* sensor_reading_task: one pass of its loop
\* ------------------------------------------------------------------------
\* a faulty variant of SensorStore: the reading is stored whatever lock()
\* returned
SensorStore_Unguarded(reading) == reading

\* a faulty variant of SensorStore: the reading is dropped
SensorStore_Dropped(reading) == sensor_data

\* if let Ok(mut data) = state.sensor_data.lock() { *data = Some(reading) }
SensorStore(reading) == IF LockOk("sensor") THEN reading ELSE sensor_data

SensorCycle ==
    /\ CanLock("sensor")
    /\ \E kt \in TempRandom, kh \in HumRandom, ts \in EpochSeconds :
        sensor_data' = SensorStore(
            SomeReading(simulate_temperature_reading(kt),
                        simulate_humidity_reading(kh), ts))
    /\ sampled' = (sampled \/ LockOk("sensor"))
    /\ UNCHANGED <<feature, led_status, display, holder, poisoned, now, led_on,
                   refreshvars, handlervars, led_writer, post_ok, drivervars>>

\* ------------------------------------------------------------------------
\* led_task: one pass of its loop
\* ------------------------------------------------------------------------
\* a faulty variant of LedTaskWrite: the task toggles the field
LedTaskWrite_TogglesField == IF LockOk("led") THEN ~led_status ELSE led_status

\* if let Ok(mut status) = state.led_status.lock() { *status = led_on }
\* (hardware: pin.set_high() / pin.set_low() on state.led_pin)
LedTaskWrite == IF LockOk("led") THEN led_on ELSE led_status

\* a faulty variant of LedTaskFlip: led_on is never flipped
LedTaskFlip_Stuck == led_on

\* led_on = !led_on, whatever lock() returned
LedTaskFlip == ~led_on

LedCycle ==
    /\ CanLock("led")
    /\ led_status' = LedTaskWrite
    /\ led_on' = LedTaskFlip
    /\ led_writer' =
          IF ~LockOk("led") THEN led_writer
          ELSE IF led_writer = "api"
               THEN (IF LedTaskWrite = led_status THEN "task_kept_api"
                     ELSE "task_undid_api")
               ELSE "task"
    /\ post_ok' = IF LockOk("led") THEN "none" ELSE post_ok
    /\ UNCHANGED <<feature, sensor_data, display, holder, poisoned, now,
                   refreshvars, handlervars, sampled, drivervars>>

\* ------------------------------------------------------------------------
\* display_update_task
\* ------------------------------------------------------------------------
\* if let Ok(data) = state.sensor_data.lock() { data.clone() } else { None }
SensorSnapshot == IF LockOk("sensor") THEN sensor_data ELSE NoReading

\* a faulty variant of SensorGuardAfterSnapshot: the sensor guard stays alive
SensorGuardAfterSnapshot_Kept(p) ==
    IF LockOk("sensor") THEN Locked(p, "sensor") ELSE holder

\* the sensor guard is dropped at the end of the if-let block
SensorGuardAfterSnapshot(p) == holder

\* interval.tick() fires and the sensor field is read
RefreshTick ==
    /\ r_pc = "tick"
    /\ CanLock("sensor")
    /\ r_sensor' = SensorSnapshot
    /\ r_lock_err' = IF LockOk("sensor") THEN {} ELSE {"sensor"}
    /\ holder' = SensorGuardAfterSnapshot(DisplayTask)
    /\ r_pc' = "lock_display"
    /\ UNCHANGED <<feature, storevars, poisoned, now, led_on, r_led,
                   handlervars, histvars, drivervars>>

\* a faulty variant of DisplayGuardTaken: the display guard is dropped before
\* update_display_content is called
DisplayGuardTaken_Dropped == holder

\* if let Ok(mut display_opt) = state.display.lock(): the guard lives to the
\* end of the if-let block
DisplayGuardTaken == Locked(DisplayTask, "display")

\* state.display.lock(): on Err the cycle ends
RefreshLockDisplay ==
    /\ r_pc = "lock_display"
    /\ CanLock("display")
    /\ IF LockOk("display")
       THEN /\ holder' = DisplayGuardTaken
            /\ r_pc' = "clear"
            /\ UNCHANGED <<r_sensor, r_lock_err>>
       ELSE /\ r_pc' = "tick"
            /\ r_sensor' = NoReading
            /\ r_lock_err' = {}
            /\ UNCHANGED holder
    /\ UNCHANGED <<feature, storevars, poisoned, now, led_on, r_led,
                   handlervars, histvars, drivervars>>

\* display_opt.as_mut() is None: nothing is drawn, the guard is dropped
RefreshNoDisplay ==
    /\ r_pc = "clear"
    /\ display.kind = "none"
    /\ holder' = Unlocked("display")
    /\ r_pc' = "tick"
    /\ r_sensor' = NoReading
    /\ r_lock_err' = {}
    /\ UNCHANGED <<feature, storevars, poisoned, now, led_on,
                   r_led, handlervars, histvars, drivervars>>

\* ------------------------------------------------------------------------
\* update_display_content, called with the display guard held.  A call that
\* returns Err ends the function (the ? operator); display_update_task logs
\* the error, drops the guard and waits for its next tick.
\* ------------------------------------------------------------------------
\* Ok(()) is returned: the display guard is dropped
RenderEnds ==
    /\ holder' = Unlocked("display")
    /\ r_pc' = "tick"
    /\ r_sensor' = NoReading
    /\ r_led' = FALSE
    /\ r_lock_err' = {}

\* a faulty variant of AfterDrawErr: the Err is ignored and the function
\* goes on
AfterDrawErr_Ignored(next) == next

\* the ? operator: on Err the function returns the error to
\* display_update_task, which logs it
AfterDrawErr(next) == "log_err"

\* a draw call returned Err
RenderFails(next) ==
    /\ r_pc' = AfterDrawErr(next)
    /\ r_sensor' = NoReading
    /\ r_led' = FALSE
    /\ r_lock_err' = {}
    /\ UNCHANGED <<holder, display>>

\* error!("Failed to update display: {}", e); the display guard is dropped
RefreshLogError ==
    /\ r_pc = "log_err"
    /\ holder' = Unlocked("display")
    /\ r_pc' = "tick"
    /\ UNCHANGED <<feature, storevars, poisoned, now, led_on, r_sensor, r_led,
                   r_lock_err, handlervars, histvars, drivervars>>

\* display.clear()?
RenderClear ==
    /\ r_pc = "clear"
    /\ display.kind # "none"
    /\ \E res \in DrawResults(display) :
        IF res = "Ok"
        THEN /\ r_pc' = "title1"
             /\ UNCHANGED <<holder, r_sensor, r_led, r_lock_err>>
             /\ display' = DisplayClear(display)
        ELSE RenderFails("title1")
    /\ UNCHANGED <<feature, led_status, sensor_data, poisoned, now, led_on,
                   handlervars, histvars, drivervars>>

\* display.draw_text(text, x, y, color)? at position pc, going on to next
RenderDraw(pc, text, x, y, color, next) ==
    /\ r_pc = pc
    /\ \E res \in DrawResults(display) :
        IF res = "Ok"
        THEN /\ r_pc' = next
             /\ UNCHANGED <<holder, r_sensor, r_led, r_lock_err>>
             /\ display' = DisplayDrawText(display, text, x, y, color)
        ELSE RenderFails(next)
    /\ UNCHANGED <<feature, led_status, sensor_data, poisoned, led_on,
                   handlervars, histvars, drivervars>>

RenderTitle ==
    /\ RenderDraw("title1", TitleText, 10, 30, "WHITE", "title2")
    /\ UNCHANGED now

RenderSubtitle ==
    /\ RenderDraw("title2", SubtitleText, 10, 60, "WHITE", "data")
    /\ UNCHANGED now

\* if let Some(data) = sensor_data
RenderTemp ==
    /\ r_sensor.some
    /\ RenderDraw("data", TempText(r_sensor.temperature), 10, 90, "WHITE",
                  "humidity")
    /\ UNCHANGED now

\* the step after the humidity line: the warning line when the temperature is
\* high, the uptime line otherwise
AfterHumidity(t) == IF IsHighTemp(t) THEN "warn" ELSE "uptime"

RenderHumidity ==
    /\ RenderDraw("humidity", HumidityText(r_sensor.humidity), 10, 120, "WHITE",
                  AfterHumidity(r_sensor.temperature))
    /\ UNCHANGED now

\* if data.temperature > 30.0
RenderWarning ==
    /\ RenderDraw("warn", HighTempText, 10, 150, "RED", "uptime")
    /\ UNCHANGED now

\* else: no reading
RenderNoData ==
    /\ ~r_sensor.some
    /\ RenderDraw("data", NoDataText, 10, 90, "WHITE", "uptime")
    /\ UNCHANGED now

\* let uptime = state.start_time.elapsed().as_secs()
RenderUptime ==
    \E uptime \in Elapsed :
        /\ now' = uptime
        /\ RenderDraw("uptime", UptimeText(uptime), 10, 180, "WHITE",
                      "lock_led")

\* state.led_status.lock() / state.led_pin.lock(), with the display guard
\* held: on Err the LED counts as off
RenderLockLed ==
    /\ r_pc = "lock_led"
    /\ CanLock("led")
    /\ IF LockOk("led")
       THEN /\ holder' = Locked(DisplayTask, "led")
            /\ r_pc' = "read_led"
            /\ UNCHANGED <<r_led, r_lock_err>>
       ELSE /\ r_led' = FALSE
            /\ r_lock_err' = r_lock_err \cup {"led"}
            /\ r_pc' = "draw_led"
            /\ UNCHANGED holder
    /\ UNCHANGED <<feature, storevars, poisoned, now, led_on,
                   r_sensor, handlervars, histvars, drivervars>>

\* a faulty variant of RenderLedGuardDropped: the LED guard stays alive
RenderLedGuardDropped_Kept == holder

\* the LED guard is dropped at the end of the let statement
RenderLedGuardDropped == Unlocked("led")

\* *status / pin.is_set_high(); the LED guard is dropped
RenderReadLed ==
    /\ r_pc = "read_led"
    /\ r_led' = led_status
    /\ holder' = RenderLedGuardDropped
    /\ r_pc' = "draw_led"
    /\ UNCHANGED <<feature, storevars, poisoned, now, led_on,
                   r_sensor, r_lock_err, handlervars, histvars, drivervars>>

LedColor(on) == IF on THEN "GREEN" ELSE "RED"

\* display.draw_text("LED", 10, 210, led_color)?, the console print of the
\* simulation, Ok(()): the function returns and the display guard is dropped
RenderLed ==
    /\ r_pc = "draw_led"
    /\ \E res \in DrawResults(display) :
        IF res = "Ok"
        THEN /\ RenderEnds
             /\ display' =
                   DisplayDrawText(display, LedText, 10, 210, LedColor(r_led))
        ELSE RenderFails("tick")
    /\ UNCHANGED <<feature, led_status, sensor_data, poisoned, now, led_on,
                   handlervars, histvars, drivervars>>

\* ------------------------------------------------------------------------
\* The HTTP handlers.  One request is served at a time.  A reply is what the
\* handler's last step sends; it is no part of the program's state.
\* ------------------------------------------------------------------------
NoRequest == [route |-> "none", state |-> FALSE]

NoReply ==
    [route |-> "none", success |-> FALSE, led_state |-> FALSE, error |-> "",
     uptime_seconds |-> 0, led_status |-> FALSE, reading |-> NoReading,
     display_content |-> NoString, text |-> "", mode |-> ""]

NoSensorDataError == "No sensor data available"
GpioError == "Failed to access GPIO"
NotAvailableText == "Hardware mode - content not available via API"

Routes == {"status", "sensor", "led", "display"}

EntryPc(route) ==
    CASE route = "status" -> "st_led"
      [] route = "sensor" -> "se_sensor"
      [] route = "led" -> "le_led"
      [] route = "display" -> "di_display"

\* the handler returns Ok(warp::reply::json(&reply)): its locals are gone
Replies(reply) ==
    /\ h_pc' = "idle"
    /\ h_req' = NoRequest
    /\ h_led' = FALSE
    /\ h_sensor' = NoReading
    /\ h_uptime' = 0

\* warp routes a request to its handler; get_status_handler reads the uptime
\* first.  LedControl.state is the body of POST /led.
HttpRequest ==
    /\ h_pc = "idle"
    /\ \E route \in Routes, state \in BOOLEAN :
        /\ (route # "led" => state = FALSE)
        /\ h_req' = [route |-> route, state |-> state]
        /\ h_pc' = EntryPc(route)
        /\ IF route = "status"
           THEN \E uptime \in Elapsed : h_uptime' = uptime /\ now' = uptime
           ELSE h_uptime' = 0 /\ UNCHANGED now
    /\ UNCHANGED <<feature, storevars, holder, poisoned, led_on,
                   refreshvars, h_led, h_sensor, histvars, drivervars>>

\* ---- get_status_handler
StatusReply(content) ==
    [NoReply EXCEPT !.route = "status", !.uptime_seconds = h_uptime,
                    !.led_status = h_led, !.reading = h_sensor,
                    !.display_content = content]

\* if let Ok(status) = state.led_status.lock() { *status } else { false }
\* (hardware: pin.is_set_high() on state.led_pin)
LedSnapshot == IF LockOk("led") THEN led_status ELSE FALSE

\* a faulty variant of LedGuardAfterSnapshot: the LED guard stays alive
LedGuardAfterSnapshot_Kept(p) ==
    IF LockOk("led") THEN Locked(p, "led") ELSE holder

\* the LED guard is dropped at the end of the if-let block
LedGuardAfterSnapshot(p) == holder

StatusReadLed ==
    /\ h_pc = "st_led"
    /\ CanLock("led")
    /\ h_led' = LedSnapshot
    /\ holder' = LedGuardAfterSnapshot(Handler)
    /\ h_pc' = "st_sensor"
    /\ UNCHANGED <<feature, storevars, poisoned, now, led_on, refreshvars,
                   h_req, h_sensor, h_uptime, histvars, drivervars>>

StatusReadSensor ==
    /\ h_pc = "st_sensor"
    /\ CanLock("sensor")
    /\ h_sensor' = SensorSnapshot
    /\ h_pc' = "st_display"
    /\ UNCHANGED <<feature, storevars, holder, poisoned, now, led_on,
                   refreshvars, h_req, h_led, h_uptime, histvars, drivervars>>

\* if let Ok(display_opt) = state.display.lock()
\*     { display_opt.as_ref().and_then(|d| d.get_display_content()) }
\* else { None }
DisplaySnapshot ==
    IF LockOk("display") THEN DisplayContentOf(display) ELSE NoString

\* the display field is read, SystemStatus is built and sent
StatusReadDisplay ==
    /\ h_pc = "st_display"
    /\ CanLock("display")
    /\ Replies(StatusReply(DisplaySnapshot))
    /\ UNCHANGED <<feature, storevars, holder, poisoned, now, led_on,
                   refreshvars, histvars, drivervars>>

\* ---- get_sensor_handler
\* a faulty variant of SensorReply: None is sent as an empty reading
SensorReply_Null(data) == [NoReply EXCEPT !.route = "sensor", !.reading = data]

\* match sensor_data: the reading, or the error object
SensorReply(data) ==
    IF data.some
    THEN [NoReply EXCEPT !.route = "sensor", !.reading = data]
    ELSE [NoReply EXCEPT !.route = "sensor", !.error = NoSensorDataError]

GetSensor ==
    /\ h_pc = "se_sensor"
    /\ CanLock("sensor")
    /\ Replies(SensorReply(SensorSnapshot))
    /\ UNCHANGED <<feature, storevars, holder, poisoned, now, led_on,
                   refreshvars, histvars, drivervars>>

\* ---- control_led_handler
LedSuccessReply(state) ==
    [NoReply EXCEPT !.route = "led", !.success = TRUE, !.led_state = state]

LedFailureReply ==
    [NoReply EXCEPT !.route = "led", !.success = FALSE, !.error = GpioError]

\* a faulty variant of ControlLedWrite: the requested state is not stored
ControlLedWrite_Dropped(state) == led_status

\* if let Ok(mut status) = state.led_status.lock() { *status = state }
\* (hardware: pin.set_high() / pin.set_low() on state.led_pin)
ControlLedWrite(state) == IF LockOk("led") THEN state ELSE led_status

\* the reply: when lock() returned Err the hardware build returns the error
\* object, the simulation build falls through to the success object
ControlLedReply(state) ==
    IF ~LockOk("led") /\ feature = "hardware"
    THEN LedFailureReply
    ELSE LedSuccessReply(state)

ControlLed ==
    /\ h_pc = "le_led"
    /\ CanLock("led")
    /\ led_status' = ControlLedWrite(h_req.state)
    /\ Replies(ControlLedReply(h_req.state))
    /\ led_writer' = IF LockOk("led") THEN "api" ELSE led_writer
    /\ post_ok' = IF ControlLedReply(h_req.state).success
                  THEN BoolName(h_req.state) ELSE post_ok
    /\ UNCHANGED <<feature, sensor_data, display, holder, poisoned, now, led_on,
                   refreshvars, sampled, drivervars>>

\* ---- get_display_handler
\* match display_content
DisplayReply(content) ==
    IF content.some
    THEN [NoReply EXCEPT !.route = "display", !.display_content = content,
                         !.mode = "simulation"]
    ELSE [NoReply EXCEPT !.route = "display", !.text = NotAvailableText,
                         !.mode = "hardware"]

GetDisplay ==
    /\ h_pc = "di_display"
    /\ CanLock("display")
    /\ Replies(DisplayReply(DisplaySnapshot))
    /\ UNCHANGED <<feature, storevars, holder, poisoned, now, led_on,
                   refreshvars, histvars, drivervars>>

\* ------------------------------------------------------------------------
\* The program: AppState::new, then the three tasks and the server
\* ------------------------------------------------------------------------
Init ==
    /\ feature \in {"simulation", "hardware"}
    /\ display \in (IF feature = "simulation" THEN {SimulationDisplayNew}
                    ELSE {HardwareDisplayNew, NoDisplay})
    \* Mutex::new(false); into_output() leaves the pin's level as it was
    /\ led_status \in (IF feature = "simulation" THEN {FALSE} ELSE BOOLEAN)
    /\ sensor_data = NoReading
    /\ holder = [f \in Fields |-> Free]
    /\ poisoned = [f \in Fields |-> FALSE]
    /\ now = 0
    /\ led_on = FALSE
    /\ r_pc = "tick" /\ r_sensor = NoReading /\ r_led = FALSE
    /\ r_lock_err = {}
    /\ h_pc = "idle" /\ h_req = NoRequest /\ h_led = FALSE
    /\ h_sensor = NoReading /\ h_uptime = 0
    /\ led_writer = "none" /\ post_ok = "none" /\ sampled = FALSE
    /\ d_prev = << >> /\ d_last = [op |-> "new"] /\ d_ops = 0

Next ==
    \/ SensorCycle
    \/ LedCycle
    \/ RefreshTick \/ RefreshLockDisplay \/ RefreshNoDisplay
    \/ RenderClear \/ RenderTitle \/ RenderSubtitle \/ RenderTemp
    \/ RenderHumidity \/ RenderWarning \/ RenderNoData \/ RenderUptime
    \/ RenderLockLed \/ RenderReadLed \/ RenderLed \/ RefreshLogError
    \/ HttpRequest
    \/ StatusReadLed \/ StatusReadSensor \/ StatusReadDisplay
    \/ GetSensor
    \/ ControlLed
    \/ GetDisplay

Spec == Init /\ [][Next]_vars

\* The program with a fault injected: a mutex of the store gets poisoned.
\* No code that runs under the sensor or the LED guard can panic, so Spec has
\* no such step; the Err arms of the lock() calls are reached here.
FaultNext == Next \/ PoisonLock

FaultSpec == Init /\ [][FaultNext]_vars

\* The program with a stuck panel: a call on the hardware display never
\* returns.  update_display_content stays in that call, display_update_task
\* keeps the display guard it took before.
DrawCallPcs ==
    {"clear", "title1", "title2", "data", "humidity", "warn", "uptime",
     "draw_led"}

DrawHangs ==
    /\ r_pc \in DrawCallPcs
    /\ display.kind = "hardware"
    /\ r_pc' = "hung"
    /\ UNCHANGED <<feature, storevars, holder, poisoned, now, led_on, r_sensor,
                   r_led, r_lock_err, handlervars, histvars, drivervars>>

HangNext == Next \/ DrawHangs

HangSpec == Init /\ [][HangNext]_vars

\* The program under its scheduling.  A draw call returns and a task that
\* holds a guard goes on (weak fairness of the refresher's steps after its
\* tick).  A handler or the LED task blocked in lock() is woken when the
\* guard is dropped; display_update_task then sleeps until its next tick, two
\* seconds later, so the waiter gets the lock (strong fairness).
RefresherStep ==
    \/ RefreshLockDisplay \/ RefreshNoDisplay
    \/ RenderClear \/ RenderTitle \/ RenderSubtitle \/ RenderTemp
    \/ RenderHumidity \/ RenderWarning \/ RenderNoData \/ RenderUptime
    \/ RenderLockLed \/ RenderReadLed \/ RenderLed \/ RefreshLogError

HandlerStep ==
    \/ StatusReadLed \/ StatusReadSensor \/ StatusReadDisplay
    \/ GetSensor
    \/ ControlLed
    \/ GetDisplay

LiveSpec ==
    /\ Spec
    /\ WF_vars(RefresherStep)
    /\ SF_vars(HandlerStep)
    /\ SF_vars(LedCycle)

\* ------------------------------------------------------------------------
\* Driving the simulation backend alone: clear and draw_text in any order
\* ------------------------------------------------------------------------
DrawTexts == { <<"A">>, <<"A", "B", "C">> }
DrawXs == { 0, 15, 470, 480, 490 }
DrawYs == { 0, 30, 280, 300 }

\* everything but the display and the record of the calls made on it
restvars ==
    <<feature, led_status, sensor_data, holder, poisoned, now, led_on,
      refreshvars, handlervars, histvars>>

DispInit == Init /\ feature = "simulation"

DispClear ==
    /\ d_ops < MaxOps
    /\ d_ops' = d_ops + 1
    /\ d_prev' = display.content
    /\ d_last' = [op |-> "clear", text |-> << >>, x |-> 0, y |-> 0]
    /\ display' = [display EXCEPT !.content = SimClear(display.content)]
    /\ UNCHANGED restvars

DispDrawText ==
    /\ d_ops < MaxOps
    /\ \E text \in DrawTexts, x \in DrawXs, y \in DrawYs :
        /\ d_ops' = d_ops + 1
        /\ d_prev' = display.content
        /\ d_last' = [op |-> "draw_text", text |-> text, x |-> x, y |-> y]
        /\ display' = [display EXCEPT
                          !.content = SimDrawText(display.content, text, x, y)]
    /\ UNCHANGED restvars

DispNext == DispClear \/ DispDrawText

DispSpec == DispInit /\ [][DispNext]_vars

\* ------------------------------------------------------------------------
\* The grid seen as cells: row r and column c count from 0
\* ------------------------------------------------------------------------
GridLen == (GridWidth + 1) * GridHeight
CellIndex(r, c) == r * (GridWidth + 1) + c + 1
RowOf(idx) == (idx - 1) \div (GridWidth + 1)
ColOf(idx) == (idx - 1) % (GridWidth + 1)

\* the character clear leaves in cell (r, c); column GridWidth is the newline
FrameChar(r, c) ==
    IF c = GridWidth THEN NL
    ELSE IF r = 0 THEN
        (IF c = 0 THEN "TL" ELSE IF c = GridWidth - 1 THEN "TR" ELSE "HZ")
    ELSE IF r = GridHeight - 1 THEN
        (IF c = 0 THEN "BL" ELSE IF c = GridWidth - 1 THEN "BR" ELSE "HZ")
    ELSE IF c = 0 \/ c = GridWidth - 1 THEN "VT"
    ELSE " "

BlankFrame == [idx \in 1..GridLen |-> FrameChar(RowOf(idx), ColOf(idx))]

IsBorderCell(r, c) ==
    /\ c < GridWidth
    /\ (r = 0 \/ r = GridHeight - 1 \/ c = 0 \/ c = GridWidth - 1)

\* C7: on the simulation backend the top row, the bottom row, the leftmost
\* and the rightmost column hold the frame characters written by clear after
\* every sequence of clear and draw_text calls.
C7_BorderNeverOverwritten ==
    display.content # << >> =>
        /\ Len(display.content) = GridLen
        /\ \A idx \in 1..GridLen :
              IsBorderCell(RowOf(idx), ColOf(idx)) =>
                  display.content[idx] = FrameChar(RowOf(idx), ColOf(idx))

\* C8: clear followed immediately by get_rendered_text returns the blank
\* bordered frame, whatever calls came before.
C8_ClearYieldsBlankFrame ==
    d_last.op = "clear" => SimGetDisplayContent(display.content) = BlankFrame

\* a clear has just been applied to a frame that had been drawn on
C8_Witness ==
    /\ d_last.op = "clear"
    /\ d_prev # << >>
    /\ d_prev # BlankFrame
    /\ SimGetDisplayContent(display.content) = BlankFrame

\* the cell-wise effect of draw_text(text, x, y) on a grid: the cells of row
\* y / 20 from column x / 10 + 1 up to the last interior column take the
\* characters of the text, every other cell is kept
DrawnCell(prev, text, x, y, idx) ==
    LET r == RowOf(idx)
        c == ColOf(idx)
        j == c - (x \div GlyphWidth + 1)
    IN  IF /\ r = y \div GlyphHeight
           /\ j >= 0 /\ j < Len(text)
           /\ c <= GridWidth - 2
        THEN text[j + 1]
        ELSE prev[idx]

StartsOutside(x, y) ==
    \/ x \div GlyphWidth >= GridWidth - 2
    \/ y \div GlyphHeight >= GridHeight

\* C9: a draw_text whose starting cell is outside the interior (column beyond
\* the interior width, or row beyond the grid height) leaves the grid
\* unchanged; text starting inside is truncated at the right border column and
\* nothing is written outside the grid.
C9_DrawTextClipped ==
    d_last.op = "draw_text" =>
        /\ Len(display.content) = Len(d_prev)
        /\ StartsOutside(d_last.x, d_last.y) => display.content = d_prev
        /\ \A idx \in 1..Len(d_prev) :
              display.content[idx] =
                  DrawnCell(d_prev, d_last.text, d_last.x, d_last.y, idx)

\* a three-character text drawn in the last interior column: one character
\* is written, the rest is cut at the right border
C9_Witness ==
    /\ d_last.op = "draw_text"
    /\ Len(d_last.text) = 3
    /\ d_last.x \div GlyphWidth = GridWidth - 3
    /\ d_last.y \div GlyphHeight = 1
    /\ Len(d_prev) = GridLen
    /\ display.content # d_prev
    /\ display.content[CellIndex(1, GridWidth - 2)] = d_last.text[1]
    /\ display.content[CellIndex(1, GridWidth - 1)] = "VT"

\* ------------------------------------------------------------------------
\* The locks
\* ------------------------------------------------------------------------
\* C1 as stated: no task and no handler holds the lock of more than one field
\* at the same time.
C1_AtMostOneLock == \A p \in Procs : Cardinality(HeldBy(p)) <= 1

\* C1: the sampler, the toggler and the handlers take each lock with no other
\* guard alive and drop it within the step; the refresher takes the sensor
\* lock with no guard alive, and holds the display lock alone or the display
\* lock together with the LED lock taken inside it.
C1_OnlyRefresherNestsLocks ==
    /\ \A p \in Procs \ {DisplayTask} : HeldBy(p) = {}
    /\ HeldBy(DisplayTask) \in {{}, {"display"}, {"display", "led"}}
    /\ r_pc \in {"tick", "lock_display"} => HeldBy(DisplayTask) = {}
    /\ "led" \in HeldBy(DisplayTask) <=> r_pc = "read_led"

\* the refresher holds the display guard and the LED guard together
C1_Witness ==
    /\ r_pc = "read_led"
    /\ HeldBy(DisplayTask) = {"display", "led"}

C3_StatusReportsPostedState ==
    /\ (h_pc = "st_led" /\ CanLock("led") /\ post_ok # "none") =>
            BoolName(LedSnapshot) = post_ok
    /\ (h_pc = "st_display" /\ CanLock("display")) =>
            StatusReply(DisplaySnapshot).led_status = h_led

\* GET /status is about to read the LED field set to true by POST /led, the
\* LED task being about to write false
C3_Witness ==
    /\ h_pc = "st_led"
    /\ CanLock("led")
    /\ post_ok = "true"
    /\ led_writer = "api"
    /\ ~led_on
    /\ LedSnapshot

\* C4 as stated: the write of led_task that follows a write of POST /led
\* stores the opposite of the posted value, so the override never survives it.
C4_OverrideNeverSurvives == led_writer # "task_kept_api"

\* C4: the write of led_task that follows a write of POST /led stores the
\* task's own led_on whatever was posted: the override is undone when the
\* posted value differs from led_on and survives when it equals led_on.
C4_TogglerWritesOwnValue ==
    led_writer \in {"task_kept_api", "task_undid_api"} => led_status = ~led_on

\* the posted value survived the tick of led_task that followed it
C4_Witness ==
    /\ led_writer = "task_kept_api"
    /\ led_status = ~led_on

\* C5: when POST /led fails to take the LED lock the reply has success =
\* false and an error and the field is unchanged; success = true with the
\* requested led_state is sent only when the write was applied.
C5_LockFailureIsReported ==
    (h_pc = "le_led" /\ CanLock("led")) =>
        /\ ~LockOk("led") =>
              /\ ControlLedReply(h_req.state).success = FALSE
              /\ ControlLedReply(h_req.state).error # ""
              /\ ControlLedWrite(h_req.state) = led_status
        /\ ControlLedReply(h_req.state).success =>
              /\ ControlLedReply(h_req.state).led_state = h_req.state
              /\ LockOk("led")
              /\ ControlLedWrite(h_req.state) = h_req.state

\* ------------------------------------------------------------------------
\* The replies of GET /display and GET /sensor
\* ------------------------------------------------------------------------
\* C6: in the simulation build every GET /display, a request served before
\* the first refresh included, returns mode "simulation" and a non-empty
\* display_content.
C6_DisplayContentNeverEmpty ==
    (feature = "simulation" /\ h_pc = "di_display" /\ CanLock("display")) =>
        /\ DisplayReply(DisplaySnapshot).mode = "simulation"
        /\ DisplayReply(DisplaySnapshot).display_content.some
        /\ DisplayReply(DisplaySnapshot).display_content.text # << >>

\* C10: GET /sensor served before sensor_reading_task has stored a reading
\* returns the error object with the "no data" message, and no reading.
C10_NoDataBeforeFirstSample ==
    (h_pc = "se_sensor" /\ CanLock("sensor") /\ ~sampled) =>
        /\ SensorReply(SensorSnapshot).error = NoSensorDataError
        /\ SensorReply(SensorSnapshot).reading = NoReading

\* GET /sensor is about to answer and no reading was stored yet, the LED task
\* and the refresher having run
C10_Witness ==
    /\ h_pc = "se_sensor"
    /\ CanLock("sensor")
    /\ ~sampled
    /\ led_writer = "task"
    /\ SensorReply(SensorSnapshot).error = NoSensorDataError

\* ------------------------------------------------------------------------
\* The renderer
\* ------------------------------------------------------------------------
\* the frame d shows the warning line: on the simulation grid the text stands
\* in row 150 / 20 from column 10 / 10 + 1, on the panel it was drawn since
\* the last clear
HasWarning(d) ==
    IF d.kind = "simulation"
    THEN /\ Len(d.content) = GridLen
         /\ \A j \in 1..Len(HighTempText) :
               d.content[CellIndex(7, 1 + j)] = HighTempText[j]
    ELSE \E i \in 1..Len(d.content) : d.content[i].text = HighTempText

\* the last draw call of a render cycle returns Ok: the cycle is completed
CycleCompletes ==
    /\ r_pc = "draw_led"
    /\ r_pc' = "tick"
    /\ display' # display

\* C11: a completed render cycle leaves a frame with the warning line if and
\* only if the snapshot it was given holds a temperature above 30.0, whatever
\* the frame before it showed.
C11_WarningIffAboveThirty ==
    [][CycleCompletes =>
         (HasWarning(display') <=>
             (r_sensor.some /\ r_sensor.temperature > 30000))]_vars

\* a cycle given 29.99 degrees, shown as "Temp: 30.0C", is about to complete
\* on the simulation grid and the frame holds no warning line
C11_Witness ==
    /\ r_pc = "draw_led"
    /\ display.kind = "simulation"
    /\ r_sensor.some
    /\ r_sensor.temperature = 29990
    /\ ~HasWarning(display)
    /\ \A j \in 1..Len(TempText(29990)) :
          display.content[CellIndex(4, 1 + j)] = TempText(29990)[j]

\* a cycle given a temperature of at most 30.0 starts on a frame that shows
\* the warning line
C11_CoolCycleOnWarnedFrame ==
    /\ r_pc = "clear"
    /\ HasWarning(display)
    /\ r_sensor.some
    /\ r_sensor.temperature <= 30000

\* ------------------------------------------------------------------------
\* A draw call that never returns
\* ------------------------------------------------------------------------
\* the step the handler is about to take can be taken
HandlerCanStep ==
    /\ h_pc = "st_led" => ENABLED StatusReadLed
    /\ h_pc = "st_sensor" => ENABLED StatusReadSensor
    /\ h_pc = "st_display" => ENABLED StatusReadDisplay
    /\ h_pc = "se_sensor" => ENABLED GetSensor
    /\ h_pc = "le_led" => ENABLED ControlLed
    /\ h_pc = "di_display" => ENABLED GetDisplay

C13_NoContentWithoutSimulation ==
    display.kind \in {"hardware", "none"} =>
        /\ (h_pc = "di_display" /\ CanLock("display")) =>
              /\ DisplayReply(DisplaySnapshot).mode = "hardware"
              /\ DisplayReply(DisplaySnapshot).text =
                    "Hardware mode - content not available via API"
              /\ ~DisplayReply(DisplaySnapshot).display_content.some
              /\ DisplayReply(DisplaySnapshot).error = ""
        /\ (h_pc = "st_display" /\ CanLock("display")) =>
              /\ ~StatusReply(DisplaySnapshot).display_content.some
              /\ StatusReply(DisplaySnapshot).error = ""
              /\ StatusReply(DisplaySnapshot).led_status = h_led
              /\ StatusReply(DisplaySnapshot).reading = h_sensor

\* GET /display is about to answer in a store without display, after the
\* refresher has skipped a cycle and a reading was stored
C13_Witness ==
    /\ display.kind = "none"
    /\ h_pc = "di_display"
    /\ CanLock("display")
    /\ sampled
    /\ r_pc = "tick"
    /\ DisplayReply(DisplaySnapshot).mode = "hardware"

\* the simulation grid d shows text in row y from column 1 + 1 on
ShowsText(d, y, text) ==
    /\ d.kind = "simulation"
    /\ Len(d.content) = GridLen
    /\ \A j \in 1..Len(text) : d.content[CellIndex(y, 1 + j)] = text[j]

DisplayLockFailed == r_pc = "lock_display" /\ r_pc' = "tick"

C15_LedLineAfterFailedLock ==
    /\ "led" \in r_lock_err
    /\ r_pc = "draw_led"
    /\ led_status

\* ------------------------------------------------------------------------
\* The three periodic tasks never stop
\* ------------------------------------------------------------------------
\* The faulty program of the hardware build (the build whose draw calls can
\* return Err) under its scheduling: the timers of the tasks fire, a draw
\* call returns, and led_task blocked in lock() gets the LED guard that
\* update_display_content drops.
HardwareInit == Init /\ feature = "hardware"

TaskLiveSpec ==
    /\ HardwareInit
    /\ [][FaultNext]_vars
    /\ WF_vars(RefreshTick)
    /\ WF_vars(RefresherStep)
    /\ SF_vars(LedCycle)

PastDrawCall ==
    /\ r_pc \in DrawCallPcs
    /\ display.kind = "hardware"
    /\ r_pc' \notin {r_pc, "hung"}

\* C17: a draw call that fails takes update_display_content straight to its
\* caller, which logs that one error and goes to its next tick: the frame
\* stays as the calls before left it and no other draw call is made in the
\* cycle.  A draw call that does not fail has drawn.  While the error is
\* logged the other tasks can run.
C17_DrawErrorAbortsCycle ==
    [][/\ (PastDrawCall /\ r_pc' = "log_err") =>
             /\ display' = display
             /\ HeldBy(DisplayTask)' = {"display"}
       /\ (PastDrawCall /\ r_pc' # "log_err" /\ r_pc # "clear") =>
             Len(display'.content) = Len(display.content) + 1
       /\ (PastDrawCall /\ r_pc' # "log_err" /\ r_pc = "clear") =>
             display'.content = << >>
       /\ (r_pc = "log_err" /\ r_pc' # r_pc) =>
             /\ r_pc' = "tick"
             /\ display' = display
             /\ HeldBy(DisplayTask)' = {}
       /\ display' # display => r_pc \in DrawCallPcs /\ r_pc' # "log_err"
       /\ r_pc = "log_err" =>
             /\ ENABLED SensorCycle
             /\ ENABLED LedCycle
             /\ h_pc \notin {"st_display", "di_display"} => HandlerCanStep
      ]_vars

\* the draw call of the temperature line failed: the error is being logged
\* and the panel shows the two title lines alone
C17_Witness ==
    /\ r_pc = "log_err"
    /\ display.kind = "hardware"
    /\ Len(display.content) = 2
    /\ display.content[2].text = SubtitleText
    /\ sampled

\* ------------------------------------------------------------------------
\* The blink of led_task
\* ------------------------------------------------------------------------
\* C18: a pass of led_task (the step that flips led_on) stores the led_on it
\* began with in the LED field, whatever the field held and whoever wrote it
\* last, and flips led_on: the value stored by the next pass is the opposite.
C18_TogglerAlternates ==
    [][led_on' # led_on =>
          /\ CanLock("led")
          /\ led_status' = led_on
          /\ led_on' = ~led_on
          /\ led_status' = ~led_on'
          /\ led_writer' \in {"task", "task_kept_api", "task_undid_api"}
      ]_vars

\* led_task has stored true (its second pass at the earliest) over a false
\* that POST /led had stored
C18_Witness ==
    /\ led_writer = "task_undid_api"
    /\ led_status
    /\ ~led_on
    /\ feature = "simulation"

\* ------------------------------------------------------------------------
\* The reading GET /sensor returns
\* ------------------------------------------------------------------------
\* C19: the sensor field is assigned by sensor_reading_task alone, always a
\* reading.  Once a reading was stored the field is never None, and a GET
\* /sensor whose lock() returns Ok replies with the reading the field holds,
\* the one of the last store, and not with the error object.
C19_SensorReturnsLastStored ==
    [][/\ sensor_data' # sensor_data =>
             /\ sensor_data'.some
             /\ sampled'
             /\ LockOk("sensor")
             /\ UNCHANGED <<r_pc, h_pc, led_on>>
       /\ sampled => sensor_data.some
       /\ (sampled /\ h_pc = "se_sensor" /\ CanLock("sensor")
              /\ LockOk("sensor")) =>
             /\ SensorReply(SensorSnapshot).reading = sensor_data
             /\ SensorReply(SensorSnapshot).error = ""
             /\ SensorReply(SensorSnapshot).route = "sensor"
      ]_vars

\* GET /sensor is about to reply after sensor_reading_task has stored the
\* reading of 30.005 degrees
C19_Witness ==
    /\ sampled
    /\ h_pc = "se_sensor"
    /\ CanLock("sensor")
    /\ LockOk("sensor")
    /\ sensor_data.temperature = 30005
    /\ SensorReply(SensorSnapshot).reading = sensor_data

\* ------------------------------------------------------------------------
\* The frames a reader of the display field sees
\* ------------------------------------------------------------------------
\* the readings sensor_reading_task can store
Readings ==
    {SomeReading(simulate_temperature_reading(kt),
                 simulate_humidity_reading(kh), ts) :
        kt \in TempRandom, kh \in HumRandom, ts \in EpochSeconds}

\* the grid d holds every line of a render cycle: the two title lines, the
\* lines of a reading or the "No sensor data" line, the uptime line and the
\* LED line, which is drawn last
CompleteFrame(d) ==
    /\ ShowsText(d, 1, TitleText)
    /\ ShowsText(d, 3, SubtitleText)
    /\ \/ ShowsText(d, 4, NoDataText)
       \/ \E data \in Readings :
             /\ ShowsText(d, 4, TempText(data.temperature))
             /\ ShowsText(d, 6, HumidityText(data.humidity))
             /\ IsHighTemp(data.temperature) => HasWarning(d)
    /\ \E uptime \in 0..MaxTime : ShowsText(d, 9, UptimeText(uptime))
    /\ ShowsText(d, 10, LedText)

\* C20: in the simulation build, whenever a reader can take the display lock
\* the content is the empty String of MockDisplay::new or a complete frame,
\* and that content is what GET /display and GET /status reply with; while a
\* frame is cleared and drawn display_update_task holds the display guard.
C20_ReadersSeeWholeFrames ==
    feature = "simulation" =>
        /\ CanLock("display") =>
              display.content = << >> \/ CompleteFrame(display)
        /\ r_pc \in DrawCallPcs \cup {"lock_led", "read_led"} =>
              "display" \in HeldBy(DisplayTask)
        /\ (h_pc = "di_display" /\ CanLock("display")) =>
              DisplayReply(DisplaySnapshot).display_content =
                  SomeString(display.content)
        /\ (h_pc = "st_display" /\ CanLock("display")) =>
              StatusReply(DisplaySnapshot).display_content =
                  SomeString(display.content)

\* GET /display is about to reply with a complete frame while
\* display_update_task waits for its next tick, a newer reading in the store
C20_Witness ==
    /\ feature = "simulation"
    /\ h_pc = "di_display"
    /\ CanLock("display")
    /\ r_pc = "tick"
    /\ CompleteFrame(display)
    /\ ShowsText(display, 4, TempText(30005))
    /\ sensor_data.temperature = 29990

\* GET /status waits for the display guard while the frame is half drawn
C20_ReaderWaitsForFrame ==
    /\ feature = "simulation"
    /\ h_pc = "st_display"
    /\ r_pc = "uptime"
    /\ ~CanLock("display")
    /\ ~CompleteFrame(display)

\* ------------------------------------------------------------------------
\* The size of the simulation grid
\* ------------------------------------------------------------------------
\* content is GridHeight lines of GridWidth characters, each ended by a
\* newline
IsGrid(content) ==
    /\ Len(content) > 0
    /\ content[Len(content)] = NL
    /\ Len(Lines(content)) = GridHeight
    /\ \A i \in 1..GridHeight : Len(Lines(content)[i]) = GridWidth

\* C21: on the simulation backend the content is the empty String until the
\* first clear, and draw_text leaves the empty String empty; a clear yields
\* 15 rows of 50 characters, and draw_text of a text without newline on such
\* a grid yields such a grid again.
C21_GridKeepsItsSize ==
    /\ display.content = << >> \/ IsGrid(display.content)
    /\ d_last.op = "new" => display.content = << >>
    /\ d_last.op = "clear" => IsGrid(display.content)
    /\ d_last.op = "draw_text" =>
          /\ NL \notin {d_last.text[j] : j \in 1..Len(d_last.text)}
          /\ d_prev = << >> => display.content = << >>
          /\ d_prev # << >> =>
                IsGrid(d_prev) /\ IsGrid(display.content)

\* a three-character text was drawn into the top border row of a grid that
\* had been drawn on before: the row is changed and the grid has its size
C21_Witness ==
    /\ d_ops = MaxOps
    /\ d_last.op = "draw_text"
    /\ Len(d_last.text) = 3
    /\ d_last.y \div GlyphHeight = 0
    /\ IsGrid(d_prev)
    /\ d_prev # BlankFrame
    /\ display.content # d_prev
    /\ IsGrid(display.content)

\* draw_text was called before any clear: the content is still empty
C21_DrawBeforeClear ==
    /\ d_last.op = "draw_text"
    /\ d_prev = << >>
    /\ display.content = << >>

====
